---- MODULE Spec2Model ----
(***************************************************************************)
(* Score aggregation and rating update of the Eloquence.AI game store      *)
(* (game-ui/src/stores/gameStore.ts) and of the EloScoringSystem engine.   *)
(*                                                                         *)
(* JavaScript numbers are IEEE-754 doubles.  The store divides, multiplies *)
(* by the literals 0.7 and 0.3, adds and rounds, so the model carries its  *)
(* own double arithmetic: a double is a sign, a 53-bit mantissa and a      *)
(* binary exponent, and every operation rounds to nearest, ties to even.   *)
(* TLC integers are 32 bits wide, so mantissas are kept as sequences of    *)
(* 14-bit limbs, least significant limb first.                             *)
(***************************************************************************)
EXTENDS Integers, Sequences, FiniteSets, TLC

(***************************************************************************)
(* Natural numbers of arbitrary size: <<>> is 0, no high zero limb.        *)
(***************************************************************************)
LimbBits == 14
BASE == 16384

Limb(a, i) == IF i <= Len(a) THEN a[i] ELSE 0

RECURSIVE BigNorm(_)
BigNorm(a) ==
  IF a = <<>> THEN <<>>
  ELSE IF a[Len(a)] = 0 THEN BigNorm(SubSeq(a, 1, Len(a) - 1)) ELSE a

RECURSIVE NatToBig(_)
NatToBig(n) == IF n = 0 THEN <<>> ELSE <<n % BASE>> \o NatToBig(n \div BASE)

RECURSIVE BigToNat(_)
BigToNat(a) == IF a = <<>> THEN 0 ELSE a[1] + BASE * BigToNat(Tail(a))

RECURSIVE BigCmpFrom(_, _, _)
BigCmpFrom(a, b, i) ==
  IF i = 0 THEN 0
  ELSE IF a[i] > b[i] THEN 1
  ELSE IF a[i] < b[i] THEN -1
  ELSE BigCmpFrom(a, b, i - 1)

BigCmp(a, b) ==
  IF Len(a) > Len(b) THEN 1
  ELSE IF Len(a) < Len(b) THEN -1
  ELSE BigCmpFrom(a, b, Len(a))

RECURSIVE AddLimbs(_, _, _, _)
AddLimbs(a, b, i, carry) ==
  IF i > Len(a) /\ i > Len(b)
  THEN IF carry = 0 THEN <<>> ELSE <<carry>>
  ELSE LET s == Limb(a, i) + Limb(b, i) + carry
       IN  <<s % BASE>> \o AddLimbs(a, b, i + 1, s \div BASE)

BigAdd(a, b) == AddLimbs(a, b, 1, 0)

RECURSIVE SubLimbs(_, _, _, _)
SubLimbs(a, b, i, borrow) ==
  IF i > Len(a) THEN <<>>
  ELSE LET d == a[i] - Limb(b, i) - borrow
       IN  IF d < 0 THEN <<d + BASE>> \o SubLimbs(a, b, i + 1, 1)
           ELSE <<d>> \o SubLimbs(a, b, i + 1, 0)

\* a - b for a >= b
BigSub(a, b) == BigNorm(SubLimbs(a, b, 1, 0))

RECURSIVE ColSum(_, _, _, _)
ColSum(a, b, k, i) ==
  IF i > Len(a) \/ i > k THEN 0
  ELSE (IF k - i + 1 <= Len(b) THEN a[i] * b[k - i + 1] ELSE 0)
       + ColSum(a, b, k, i + 1)

RECURSIVE MulLimbs(_, _, _, _)
MulLimbs(a, b, k, carry) ==
  IF k > Len(a) + Len(b)
  THEN IF carry = 0 THEN <<>> ELSE <<carry>>
  ELSE LET s == ColSum(a, b, k, 1) + carry
       IN  <<s % BASE>> \o MulLimbs(a, b, k + 1, s \div BASE)

BigMul(a, b) ==
  IF a = <<>> \/ b = <<>> THEN <<>> ELSE BigNorm(MulLimbs(a, b, 1, 0))

Zeros(n) == [i \in 1..n |-> 0]

\* a * 2^k
BigShl(a, k) ==
  IF a = <<>> THEN <<>>
  ELSE Zeros(k \div LimbBits) \o BigMul(a, <<2 ^ (k % LimbBits)>>)

\* floor(a / 2^k)
BigShr(a, k) ==
  LET d == k \div LimbBits
      p == 2 ^ (k % LimbBits)
      n == Len(a) - d
  IN  IF n <= 0 THEN <<>>
      ELSE BigNorm([i \in 1..n |->
             (a[i + d] \div p) + (Limb(a, i + d + 1) % p) * (BASE \div p)])

RECURSIVE IntBitLen(_)
IntBitLen(n) == IF n = 0 THEN 0 ELSE 1 + IntBitLen(n \div 2)

BigBitLen(a) ==
  IF a = <<>> THEN 0 ELSE (Len(a) - 1) * LimbBits + IntBitLen(a[Len(a)])

\* bit k (0 = least significant) of a
BigBit(a, k) == (Limb(a, k \div LimbBits + 1) \div (2 ^ (k % LimbBits))) % 2

\* TRUE iff a mod 2^k # 0
BigLowNonZero(a, k) ==
  \/ \E i \in 1..(k \div LimbBits) : Limb(a, i) # 0
  \/ Limb(a, k \div LimbBits + 1) % (2 ^ (k % LimbBits)) # 0

BigOne == <<1>>

(***************************************************************************)
(* IEEE-754 binary64 values in the normal range: s * m * 2^e with          *)
(* 2^52 <= m < 2^53, or zero.  The two zeros are not told apart (they      *)
(* compare equal in JavaScript).                                           *)
(***************************************************************************)
MantBits == 53

DZero == [s |-> 0, m |-> <<>>, e |-> 0]

\* Round s * (N + t) * 2^e, 0 <= t < 1 and t > 0 iff sticky, to nearest even.
DRound(s, N, e, sticky) ==
  LET L == BigBitLen(N)
  IN  IF N = <<>> THEN DZero
      ELSE IF L <= MantBits
      THEN [s |-> s, m |-> BigShl(N, MantBits - L), e |-> e - (MantBits - L)]
      ELSE LET k    == L - MantBits
               q    == BigShr(N, k)
               half == BigBit(N, k - 1) = 1
               rest == sticky \/ BigLowNonZero(N, k - 1)
               up   == half /\ (rest \/ BigBit(q, 0) = 1)
               q1   == IF up THEN BigAdd(q, BigOne) ELSE q
           IN  IF BigBitLen(q1) > MantBits
               THEN [s |-> s, m |-> BigShr(q1, 1), e |-> e + k + 1]
               ELSE [s |-> s, m |-> q1, e |-> e + k]

DFromInt(n) ==
  IF n = 0 THEN DZero
  ELSE IF n > 0 THEN DRound(1, NatToBig(n), 0, FALSE)
  ELSE DRound(-1, NatToBig(-n), 0, FALSE)

DNeg(x) == [x EXCEPT !.s = -x.s]

DMul(x, y) ==
  IF x.s = 0 \/ y.s = 0 THEN DZero
  ELSE DRound(x.s * y.s, BigMul(x.m, y.m), x.e + y.e, FALSE)

\* x + y for |x| >= |y|, both non-zero
DAddOrdered(x, y) ==
  LET gap == x.e - y.e
  IN  IF gap > MantBits + 3
      THEN \* y is below a quarter of the last place of x
           IF x.s = y.s THEN DRound(x.s, BigShl(x.m, 2), x.e - 2, TRUE)
           ELSE DRound(x.s, BigSub(BigShl(x.m, 2), BigOne), x.e - 2, TRUE)
      ELSE LET X == BigShl(x.m, gap)
           IN  IF x.s = y.s THEN DRound(x.s, BigAdd(X, y.m), y.e, FALSE)
               ELSE DRound(x.s, BigSub(X, y.m), y.e, FALSE)

DAbsGe(x, y) == x.e > y.e \/ (x.e = y.e /\ BigCmp(x.m, y.m) >= 0)

DAdd(x, y) ==
  IF x.s = 0 THEN y
  ELSE IF y.s = 0 THEN x
  ELSE IF DAbsGe(x, y) THEN DAddOrdered(x, y) ELSE DAddOrdered(y, x)

DSub(x, y) == DAdd(x, DNeg(y))

\* Binary long division: n further quotient bits of r / d, r < d.
RECURSIVE DivBits(_, _, _, _)
DivBits(r, d, q, n) ==
  IF n = 0 \/ Len(q) < 0 THEN <<q, r>>
  ELSE LET r2 == BigShl(r, 1)
       IN  IF BigCmp(r2, d) >= 0
           THEN DivBits(BigSub(r2, d), d, BigAdd(BigShl(q, 1), BigOne), n - 1)
           ELSE DivBits(r2, d, BigShl(q, 1), n - 1)

DivExtraBits == 55

\* floor(a / d) and a mod d for 0 < d < 2^16, most significant limb first
RECURSIVE DivSmallFrom(_, _, _, _)
DivSmallFrom(a, d, i, rem) ==
  IF i = 0 THEN <<<<>>, rem>>
  ELSE LET cur == rem * BASE + a[i]
           lo  == DivSmallFrom(a, d, i - 1, cur % d)
       IN  <<Append(lo[1], cur \div d), lo[2]>>

SmallBits == 16
SmallShift == 19

\* y is an integer of at most SmallBits bits
DIsSmallInt(y) ==
  /\ y.s # 0
  /\ y.e <= SmallBits - MantBits
  /\ y.e > -MantBits
  /\ ~BigLowNonZero(y.m, -y.e)

\* x / y, y non-zero; one rounding of the exact quotient on either path
DDiv(x, y) ==
  IF x.s = 0 THEN DZero
  ELSE IF DIsSmallInt(y)
  THEN LET d  == BigToNat(BigShr(y.m, -y.e))
           N  == BigShl(x.m, SmallShift)
           qr == DivSmallFrom(N, d, Len(N), 0)
       IN  DRound(x.s * y.s, BigNorm(qr[1]), x.e - SmallShift, qr[2] # 0)
  ELSE LET ge == BigCmp(x.m, y.m) >= 0
           q0 == IF ge THEN BigOne ELSE <<>>
           r0 == IF ge THEN BigSub(x.m, y.m) ELSE x.m
           qr == DivBits(r0, y.m, q0, DivExtraBits)
       IN  DRound(x.s * y.s, qr[1], x.e - y.e - DivExtraBits, qr[2] # <<>>)

DGtZero(x) == x.s > 0

DIsInt(x) == x.s = 0 \/ x.e >= 0 \/ ~BigLowNonZero(x.m, -x.e)

\* Math.round: the nearest integer, ties towards +Infinity; result as Int.
MathRound(x) ==
  IF x.s = 0 THEN 0
  ELSE IF x.e >= 0 THEN x.s * BigToNat(BigShl(x.m, x.e))
  ELSE LET k    == -x.e
           fl   == BigToNat(BigShr(x.m, k))
           half == BigBit(x.m, k - 1) = 1
           rest == BigLowNonZero(x.m, k - 1)
       IN  IF x.s > 0 THEN (IF half THEN fl + 1 ELSE fl)
           ELSE (IF half /\ rest THEN -(fl + 1) ELSE -fl)

(***************************************************************************)
(* The game store (gameStore.ts).  A feedback object is modelled by its    *)
(* overallScore, the only field the store reads.  The clock is Date.now()  *)
(* in milliseconds counted from the model's origin.                        *)
(***************************************************************************)
MaxSessions == 2
MaxFeedback == 2

Scores == {0, 80}
SessionIds == {"s1"}
RatingInputs == {1000}
MsPerDay == 86400000
TickStep == 1500

InitialRating == 1200
Origin == MsPerDay - TickStep
NullId == "null"
Null == -1

VARIABLES
  isSessionActive, sessionId, sessionStartTime,
  speechFeedback, visualFeedback,
  currentEloRating, sessionHistory,
  xp, streak, lastSessionDate,
  now,
  kFactor, eloInput, eloCall,
  isEnding, pagePc, recorder, pagePath,
  clients, sessions, issued

storeVars == <<isSessionActive, sessionId, sessionStartTime,
               speechFeedback, visualFeedback,
               currentEloRating, sessionHistory,
               xp, streak, lastSessionDate>>
envVars == <<now>>
eloVars == <<kFactor, eloInput, eloCall>>
pageVars == <<isEnding, pagePc, recorder, pagePath>>
wsVars == <<clients, sessions, issued>>
vars == <<storeVars, envVars, eloVars, pageVars, wsVars>>

Lit07 == DDiv(DFromInt(7), DFromInt(10))
Lit03 == DDiv(DFromInt(3), DFromInt(10))

RECURSIVE SumScores(_)
SumScores(scores) ==
  IF scores = <<>> THEN 0 ELSE scores[1] + SumScores(Tail(scores))

\* scores.length > 0 ? scores.reduce((a, b) => a + b, 0) / scores.length : 0
\* Fault: the latest entry taken for the average
AvgScoreLatest(scores) ==
  IF Len(scores) > 0 THEN DFromInt(scores[Len(scores)]) ELSE DZero

AvgScore(scores) ==
  IF Len(scores) > 0
  THEN DDiv(DFromInt(SumScores(scores)), DFromInt(Len(scores)))
  ELSE DZero

\* Fault: the weights of the two modalities exchanged
CombinedScoreSwapped(avgSpeechScore, avgVisualScore) ==
  IF DGtZero(avgSpeechScore) /\ DGtZero(avgVisualScore)
  THEN DFromInt(MathRound(DAdd(DMul(avgSpeechScore, Lit03),
                               DMul(avgVisualScore, Lit07))))
  ELSE IF DGtZero(avgVisualScore) THEN avgVisualScore
  ELSE avgSpeechScore

\* Fault: the weighted sum taken even when a modality has no signal
CombinedScoreAlwaysBlended(avgSpeechScore, avgVisualScore) ==
  DFromInt(MathRound(DAdd(DMul(avgSpeechScore, Lit07),
                          DMul(avgVisualScore, Lit03))))

\* Fault: the two averages added without their weights
CombinedScoreUnweighted(avgSpeechScore, avgVisualScore) ==
  IF DGtZero(avgSpeechScore) /\ DGtZero(avgVisualScore)
  THEN DFromInt(MathRound(DAdd(avgSpeechScore, avgVisualScore)))
  ELSE IF DGtZero(avgVisualScore) THEN avgVisualScore
  ELSE avgSpeechScore

CombinedScore(avgSpeechScore, avgVisualScore) ==
  IF DGtZero(avgSpeechScore) /\ DGtZero(avgVisualScore)
  THEN DFromInt(MathRound(DAdd(DMul(avgSpeechScore, Lit07),
                               DMul(avgVisualScore, Lit03))))
  ELSE IF DGtZero(avgVisualScore) THEN avgVisualScore
  ELSE avgSpeechScore

\* Fault: a session without data treated as no result instead of score 0
EloChangeSkippingNoData(combinedScore) ==
  IF combinedScore.s = 0 THEN 0
  ELSE MathRound(DSub(combinedScore, DFromInt(50)))

\* Fault: the change taken from the Elo formula against an equal opponent
EloChangeFromEngine(combinedScore) ==
  MathRound(DMul(DFromInt(32),
                 DSub(DDiv(combinedScore, DFromInt(100)),
                      DDiv(DFromInt(1), DFromInt(2)))))

\* Fault: Math.floor in place of Math.round
EloChangeFloored(combinedScore) ==
  LET x == DSub(combinedScore, DFromInt(50))
  IN  IF DIsInt(x) THEN MathRound(x)
      ELSE MathRound(DSub(x, DDiv(DFromInt(1), DFromInt(2))))

EloChange(combinedScore) == MathRound(DSub(combinedScore, DFromInt(50)))

\* Fault: a new record created with a provisional score of 50
NewSessionPrescored(id, t) ==
  [sessionId |-> id, startTime |-> t, endTime |-> 0, duration |-> DZero,
   speechFeedback |-> <<>>, visualFeedback |-> <<>>,
   combinedScore |-> DFromInt(50), eloChange |-> 0]

NewSession(id, t) ==
  [sessionId |-> id, startTime |-> t, endTime |-> 0, duration |-> DZero,
   speechFeedback |-> <<>>, visualFeedback |-> <<>>,
   combinedScore |-> DZero, eloChange |-> 0]

RECURSIVE FeedbackCount(_)
FeedbackCount(h) ==
  IF h = <<>> THEN 0
  ELSE Len(h[1].speechFeedback) + Len(h[1].visualFeedback)
       + FeedbackCount(Tail(h))

InitStore ==
  /\ isSessionActive = FALSE
  /\ sessionId = NullId
  /\ sessionStartTime = Null
  /\ speechFeedback = Null
  /\ visualFeedback = Null
  /\ currentEloRating = InitialRating
  /\ sessionHistory = <<>>
  /\ xp = 0
  /\ streak = 0
  /\ lastSessionDate = Null
  /\ now = Origin

\* Fault: the new record replaces the history instead of being prepended
startSessionReplacing(id) ==
  /\ isSessionActive' = TRUE
  /\ sessionId' = id
  /\ sessionStartTime' = now
  /\ sessionHistory' = <<NewSession(id, now)>>
  /\ UNCHANGED <<speechFeedback, visualFeedback, currentEloRating,
                 xp, streak, lastSessionDate, envVars>>

startSession(id) ==
  /\ isSessionActive' = TRUE
  /\ sessionId' = id
  /\ sessionStartTime' = now
  /\ sessionHistory' = <<NewSession(id, now)>> \o sessionHistory
  /\ UNCHANGED <<speechFeedback, visualFeedback, currentEloRating,
                 xp, streak, lastSessionDate, envVars>>

\* Fault: the early return on an inactive session left out
endSessionUnguarded(endTime) ==
  IF sessionHistory = <<>>
  THEN UNCHANGED <<storeVars, envVars>>
  ELSE LET currentSession == sessionHistory[1]
           duration       == DDiv(DFromInt(endTime - currentSession.startTime),
                                  DFromInt(1000))
           avgSpeechScore == AvgScore(currentSession.speechFeedback)
           avgVisualScore == AvgScore(currentSession.visualFeedback)
           combinedScore  == CombinedScore(avgSpeechScore, avgVisualScore)
           eloChange      == EloChange(combinedScore)
           newElo         == currentEloRating + eloChange
           today          == endTime \div MsPerDay
           missed         == /\ lastSessionDate # Null
                             /\ (today - lastSessionDate) * 24 > 24
       IN  /\ sessionHistory' =
                [sessionHistory EXCEPT ![1] =
                   [@ EXCEPT !.duration = duration,
                             !.endTime = endTime,
                             !.combinedScore = combinedScore]]
           /\ isSessionActive' = FALSE
           /\ sessionId' = NullId
           /\ sessionStartTime' = Null
           /\ currentEloRating' = newElo
           /\ xp' = xp + 10
           /\ streak' = IF lastSessionDate # today
                        THEN (IF missed THEN 1 ELSE streak + 1)
                        ELSE streak
           /\ lastSessionDate' = today
           /\ now' = endTime
           /\ UNCHANGED <<speechFeedback, visualFeedback>>

\* Fault: the rating kept from falling below zero
endSessionFloorAtZero(endTime) ==
  IF ~isSessionActive \/ sessionHistory = <<>>
  THEN UNCHANGED <<storeVars, envVars>>
  ELSE LET currentSession == sessionHistory[1]
           duration       == DDiv(DFromInt(endTime - currentSession.startTime),
                                  DFromInt(1000))
           avgSpeechScore == AvgScore(currentSession.speechFeedback)
           avgVisualScore == AvgScore(currentSession.visualFeedback)
           combinedScore  == CombinedScore(avgSpeechScore, avgVisualScore)
           eloChange      == EloChange(combinedScore)
           newElo         == currentEloRating + eloChange
           today          == endTime \div MsPerDay
           missed         == /\ lastSessionDate # Null
                             /\ (today - lastSessionDate) * 24 > 24
       IN  /\ sessionHistory' =
                [sessionHistory EXCEPT ![1] =
                   [@ EXCEPT !.duration = duration,
                             !.endTime = endTime,
                             !.combinedScore = combinedScore]]
           /\ isSessionActive' = FALSE
           /\ sessionId' = NullId
           /\ sessionStartTime' = Null
           /\ currentEloRating' = IF newElo < 0 THEN 0 ELSE newElo
           /\ xp' = xp + 10
           /\ streak' = IF lastSessionDate # today
                        THEN (IF missed THEN 1 ELSE streak + 1)
                        ELSE streak
           /\ lastSessionDate' = today
           /\ now' = endTime
           /\ UNCHANGED <<speechFeedback, visualFeedback>>

endSession(endTime) ==
  IF ~isSessionActive \/ sessionHistory = <<>>
  THEN UNCHANGED <<storeVars, envVars>>
  ELSE LET currentSession == sessionHistory[1]
           duration       == DDiv(DFromInt(endTime - currentSession.startTime),
                                  DFromInt(1000))
           avgSpeechScore == AvgScore(currentSession.speechFeedback)
           avgVisualScore == AvgScore(currentSession.visualFeedback)
           combinedScore  == CombinedScore(avgSpeechScore, avgVisualScore)
           eloChange      == EloChange(combinedScore)
           newElo         == currentEloRating + eloChange
           today          == endTime \div MsPerDay
           missed         == /\ lastSessionDate # Null
                             /\ (today - lastSessionDate) * 24 > 24
       IN  /\ sessionHistory' =
                [sessionHistory EXCEPT ![1] =
                   [@ EXCEPT !.duration = duration,
                             !.endTime = endTime,
                             !.combinedScore = combinedScore]]
           /\ isSessionActive' = FALSE
           /\ sessionId' = NullId
           /\ sessionStartTime' = Null
           /\ currentEloRating' = newElo
           /\ xp' = xp + 10
           /\ streak' = IF lastSessionDate # today
                        THEN (IF missed THEN 1 ELSE streak + 1)
                        ELSE streak
           /\ lastSessionDate' = today
           /\ now' = endTime
           /\ UNCHANGED <<speechFeedback, visualFeedback>>

\* Fault: the head record rescored by every speech feedback
setSpeechFeedbackRescoring(feedback) ==
  /\ speechFeedback' = feedback
  /\ sessionHistory' =
       IF Len(sessionHistory) > 0
       THEN [sessionHistory EXCEPT
               ![1] = [@ EXCEPT !.speechFeedback = Append(@, feedback),
                                !.combinedScore = DFromInt(feedback)]]
       ELSE sessionHistory
  /\ UNCHANGED <<isSessionActive, sessionId, sessionStartTime, visualFeedback,
                 currentEloRating, xp, streak, lastSessionDate, envVars>>

setSpeechFeedback(feedback) ==
  /\ speechFeedback' = feedback
  /\ sessionHistory' =
       IF Len(sessionHistory) > 0
       THEN [sessionHistory EXCEPT ![1].speechFeedback = Append(@, feedback)]
       ELSE sessionHistory
  /\ UNCHANGED <<isSessionActive, sessionId, sessionStartTime, visualFeedback,
                 currentEloRating, xp, streak, lastSessionDate, envVars>>

\* Fault: visual feedback pushed onto the speech list of the head record
setVisualFeedbackIntoSpeech(feedback) ==
  /\ visualFeedback' = feedback
  /\ sessionHistory' =
       IF Len(sessionHistory) > 0
       THEN [sessionHistory EXCEPT ![1].speechFeedback = Append(@, feedback)]
       ELSE sessionHistory
  /\ UNCHANGED <<isSessionActive, sessionId, sessionStartTime, speechFeedback,
                 currentEloRating, xp, streak, lastSessionDate, envVars>>

\* Fault: visual feedback clears the latest speech feedback
setVisualFeedbackClearingSpeech(feedback) ==
  /\ visualFeedback' = feedback
  /\ speechFeedback' = Null
  /\ sessionHistory' =
       IF Len(sessionHistory) > 0
       THEN [sessionHistory EXCEPT ![1].visualFeedback = Append(@, feedback)]
       ELSE sessionHistory
  /\ UNCHANGED <<isSessionActive, sessionId, sessionStartTime,
                 currentEloRating, xp, streak, lastSessionDate, envVars>>

setVisualFeedback(feedback) ==
  /\ visualFeedback' = feedback
  /\ sessionHistory' =
       IF Len(sessionHistory) > 0
       THEN [sessionHistory EXCEPT ![1].visualFeedback = Append(@, feedback)]
       ELSE sessionHistory
  /\ UNCHANGED <<isSessionActive, sessionId, sessionStartTime, speechFeedback,
                 currentEloRating, xp, streak, lastSessionDate, envVars>>

updateEloRating(newRating) ==
  /\ currentEloRating' = newRating
  /\ UNCHANGED <<isSessionActive, sessionId, sessionStartTime, speechFeedback,
                 visualFeedback, sessionHistory, xp, streak, lastSessionDate,
                 envVars>>

\* Session objects a caller may hand to addSessionToHistory
ExternalSessions ==
  { [NewSession("ext", Origin) EXCEPT !.endTime = Origin + 1500,
                                      !.duration = DDiv(DFromInt(3), DFromInt(2)),
                                      !.combinedScore = DFromInt(55)] }

\* Fault: the session put in front of the history
addSessionToHistoryPrepending(session) ==
  /\ sessionHistory' = <<session>> \o sessionHistory
  /\ UNCHANGED <<isSessionActive, sessionId, sessionStartTime, speechFeedback,
                 visualFeedback, currentEloRating, xp, streak, lastSessionDate,
                 envVars>>

addSessionToHistory(session) ==
  /\ sessionHistory' = Append(sessionHistory, session)
  /\ UNCHANGED <<isSessionActive, sessionId, sessionStartTime, speechFeedback,
                 visualFeedback, currentEloRating, xp, streak, lastSessionDate,
                 envVars>>

\* Fault: the reset also puts the rating back to its initial value
resetSessionWithRating ==
  /\ isSessionActive' = FALSE
  /\ sessionId' = NullId
  /\ sessionStartTime' = Null
  /\ speechFeedback' = Null
  /\ visualFeedback' = Null
  /\ currentEloRating' = InitialRating
  /\ UNCHANGED <<sessionHistory, xp, streak, lastSessionDate, envVars>>

\* Fault: the reset leaves the session id in place
resetSessionKeepingId ==
  /\ isSessionActive' = FALSE
  /\ sessionStartTime' = Null
  /\ speechFeedback' = Null
  /\ visualFeedback' = Null
  /\ UNCHANGED <<sessionId, currentEloRating, sessionHistory, xp, streak,
                 lastSessionDate, envVars>>

resetSession ==
  /\ isSessionActive' = FALSE
  /\ sessionId' = NullId
  /\ sessionStartTime' = Null
  /\ speechFeedback' = Null
  /\ visualFeedback' = Null
  /\ UNCHANGED <<currentEloRating, sessionHistory, xp, streak, lastSessionDate,
                 envVars>>

\* What Date.now() may return: the clock never runs backwards
ClockReads == {now, now + TickStep}

(***************************************************************************)
(* EloScoringSystem (utils/EloScoringSystem.ts).  A method call is a step  *)
(* that leaves its arguments and its return value in eloCall.              *)
(* Math.pow(10, x) is modelled where x is an integer, so the ratings of    *)
(* the model lie 400 apart.                                                *)
(***************************************************************************)
DefaultKFactor == 32
Ratings == {800, 1200, 1600}
ActualScores == 0..100
GamesPlayed == {0, 29, 30, 99, 100}
NoCall == [method |-> "none"]

RECURSIVE IntPow10(_)
IntPow10(k) == IF k = 0 THEN 1 ELSE 10 * IntPow10(k - 1)

\* Math.pow(10, x) for an integer x
Pow10(x) ==
  LET k == MathRound(x)
  IN  IF k >= 0 THEN DFromInt(IntPow10(k))
      ELSE DDiv(DFromInt(1), DFromInt(IntPow10(-k)))

\* Fault: the rating gap scaled by 200 instead of 400
ExpectedScoreForScale200(gap) ==
  DDiv(DFromInt(1),
       DAdd(DFromInt(1), Pow10(DDiv(DFromInt(gap), DFromInt(200)))))

\* 1 / (1 + Math.pow(10, gap / 400))
ExpectedScoreFor(gap) ==
  DDiv(DFromInt(1),
       DAdd(DFromInt(1), Pow10(DDiv(DFromInt(gap), DFromInt(400)))))

RatingGaps == {b - a : a \in Ratings, b \in Ratings}

RECURSIVE TableOver(_)
TableOver(gaps) ==
  IF gaps = {} THEN <<>>
  ELSE LET g == CHOOSE x \in gaps : TRUE
       IN  (g :> ExpectedScoreFor(g)) @@ TableOver(gaps \ {g})

\* The quotient is the same for every call with the same gap: computed once
ExpectedScoreTable == TableOver(RatingGaps)

getExpectedScore(ratingA, ratingB) == ExpectedScoreTable[ratingB - ratingA]

\* Fault: the difference taken as expected minus actual
UpdateRatingValueReversed(k, currentRating, actualScore, opponentRating) ==
  LET expectedScore         == getExpectedScore(currentRating, opponentRating)
      actualScoreNormalized == DDiv(DFromInt(actualScore), DFromInt(100))
      newRating == DAdd(DFromInt(currentRating),
                        DMul(DFromInt(k),
                             DSub(expectedScore, actualScoreNormalized)))
  IN  MathRound(newRating)

\* The value updateRating returns on an engine whose K-factor is k
UpdateRatingValue(k, currentRating, actualScore, opponentRating) ==
  LET expectedScore         == getExpectedScore(currentRating, opponentRating)
      actualScoreNormalized == DDiv(DFromInt(actualScore), DFromInt(100))
      newRating == DAdd(DFromInt(currentRating),
                        DMul(DFromInt(k),
                             DSub(actualScoreNormalized, expectedScore)))
  IN  MathRound(newRating)

EloInputs ==
  [currentRating : Ratings, actualScore : ActualScores, opponentRating : Ratings]

\* Fault: the constructor's default K-factor taken as 40
InitEloDefault40 ==
  /\ kFactor = 40
  /\ eloCall = NoCall

\* new EloScoringSystem(), no call made yet
InitElo ==
  /\ kFactor = DefaultKFactor
  /\ eloCall = NoCall

updateRating(currentRating, actualScore, opponentRating) ==
  /\ eloCall' = [method |-> "updateRating", kFactor |-> kFactor,
                 currentRating |-> currentRating, actualScore |-> actualScore,
                 opponentRating |-> opponentRating,
                 result |-> UpdateRatingValue(kFactor, currentRating,
                                              actualScore, opponentRating)]
  /\ UNCHANGED <<kFactor, eloInput>>

\* The value calculateRatingChange returns on an engine whose K-factor is k
RatingChangeValue(k, currentRating, actualScore, opponentRating) ==
  LET expectedScore         == getExpectedScore(currentRating, opponentRating)
      actualScoreNormalized == DDiv(DFromInt(actualScore), DFromInt(100))
  IN  MathRound(DMul(DFromInt(k), DSub(actualScoreNormalized, expectedScore)))

calculateRatingChange(currentRating, actualScore, opponentRating) ==
  /\ eloCall' = [method |-> "calculateRatingChange", kFactor |-> kFactor,
                 currentRating |-> currentRating, actualScore |-> actualScore,
                 opponentRating |-> opponentRating,
                 result |-> RatingChangeValue(kFactor, currentRating,
                                              actualScore, opponentRating)]
  /\ UNCHANGED <<kFactor, eloInput>>

getWinProbability(ratingA, ratingB) ==
  /\ eloCall' = [method |-> "getWinProbability", ratingA |-> ratingA,
                 ratingB |-> ratingB,
                 result |-> getExpectedScore(ratingA, ratingB)]
  /\ UNCHANGED <<kFactor, eloInput>>

\* Fault: the first threshold made inclusive
setKFactorInclusive(gamesPlayed) ==
  /\ kFactor' = IF gamesPlayed <= 30 THEN 40
                ELSE IF gamesPlayed < 100 THEN 32
                ELSE 24
  /\ eloCall' = [method |-> "setKFactor", gamesPlayed |-> gamesPlayed]
  /\ UNCHANGED eloInput

setKFactor(gamesPlayed) ==
  /\ kFactor' = IF gamesPlayed < 30 THEN 40
                ELSE IF gamesPlayed < 100 THEN 32
                ELSE 24
  /\ eloCall' = [method |-> "setKFactor", gamesPlayed |-> gamesPlayed]
  /\ UNCHANGED eloInput


\* Ratings a caller may ask the category of
CategoryRatings == (0 - 100)..2200

\* Fault: the top tier entered only above 2000
RatingCategoryExclusiveTop(rating) ==
  IF rating > 2000 THEN "Grandmaster"
  ELSE IF rating >= 1800 THEN "Master"
  ELSE IF rating >= 1600 THEN "Expert"
  ELSE IF rating >= 1400 THEN "Advanced"
  ELSE IF rating >= 1200 THEN "Intermediate"
  ELSE IF rating >= 1000 THEN "Beginner"
  ELSE "Novice"

\* Fault: the Expert threshold mistyped as 1500
RatingCategoryExpertAt1500(rating) ==
  IF rating >= 2000 THEN "Grandmaster"
  ELSE IF rating >= 1800 THEN "Master"
  ELSE IF rating >= 1500 THEN "Expert"
  ELSE IF rating >= 1400 THEN "Advanced"
  ELSE IF rating >= 1200 THEN "Intermediate"
  ELSE IF rating >= 1000 THEN "Beginner"
  ELSE "Novice"

\* The label getRatingCategory returns
RatingCategory(rating) ==
  IF rating >= 2000 THEN "Grandmaster"
  ELSE IF rating >= 1800 THEN "Master"
  ELSE IF rating >= 1600 THEN "Expert"
  ELSE IF rating >= 1400 THEN "Advanced"
  ELSE IF rating >= 1200 THEN "Intermediate"
  ELSE IF rating >= 1000 THEN "Beginner"
  ELSE "Novice"

getRatingCategory(rating) ==
  /\ eloCall' = [method |-> "getRatingCategory", rating |-> rating,
                 result |-> RatingCategory(rating)]
  /\ UNCHANGED <<kFactor, eloInput>>

(***************************************************************************)
(* The session page (pages/dashboard.tsx, pages/index.tsx) and the media   *)
(* hook it records with (hooks/useMediaStream.ts).  The page's endSession  *)
(* handler is asynchronous: pagePc is its position and pagePath the branch *)
(* it took.  The synchronous code after the last await is written as       *)
(* consecutive steps; no other step of the page is enabled between them.   *)
(***************************************************************************)
MaxPageSessions == 2
AnalysisOutcomes == {"ok", "httpError", "exception"}

InitPage ==
  /\ isEnding = FALSE
  /\ pagePc = "idle"
  /\ recorder = "none"
  /\ pagePath = "none"

\* The recorder runs unless getUserMedia rejects; the rejection is swallowed
startStream(granted) ==
  recorder' = IF granted THEN "recording" ELSE recorder

\* What the promise of stopStream resolves to
stopStream == IF recorder = "recording" THEN "blob" ELSE "null"

\* The page's startSession, offered while the store has no active session
pageStartSession(id, granted) ==
  /\ ~isSessionActive
  /\ Len(sessionHistory) < MaxPageSessions
  /\ startStream(granted)
  /\ startSession(id)
  /\ UNCHANGED <<isEnding, pagePc, pagePath>>

\* The page's endSession up to its first await
pageEndSession ==
  /\ isSessionActive
  /\ ~isEnding
  /\ pagePc = "idle"
  /\ isEnding' = TRUE
  /\ pagePc' = "stopStream"
  /\ pagePath' = "none"
  /\ UNCHANGED <<storeVars, envVars, recorder>>

\* await stopStream() returns: the branch on recordingResult
pageStopStreamResolved ==
  /\ pagePc = "stopStream"
  /\ IF stopStream = "blob"
     THEN /\ recorder' = "inactive"
          /\ pagePc' = "analyze"
          /\ UNCHANGED pagePath
     ELSE /\ pagePath' = "noRecording"
          /\ pagePc' = "setSpeechFeedback"
          /\ UNCHANGED recorder
  /\ UNCHANGED <<storeVars, envVars, isEnding>>

\* The analysis request answers with 2xx, with an error status, or throws
pageAnalysisResolved(outcome) ==
  /\ pagePc = "analyze"
  /\ pagePath' = outcome
  /\ pagePc' = "setSpeechFeedback"
  /\ UNCHANGED <<storeVars, envVars, isEnding, recorder>>

\* The answer's feedback, or generated feedback on the other branches
pageSetSpeechFeedback(feedback) ==
  /\ pagePc = "setSpeechFeedback"
  /\ setSpeechFeedback(feedback)
  /\ pagePc' = "setVisualFeedback"
  /\ UNCHANGED <<isEnding, recorder, pagePath>>

\* Generated visual feedback; the branch without a recording returns here
pageSetVisualFeedback(feedback) ==
  /\ pagePc = "setVisualFeedback"
  /\ setVisualFeedback(feedback)
  /\ pagePc' = IF pagePath = "noRecording" THEN "idle" ELSE "finally"
  /\ UNCHANGED <<isEnding, recorder, pagePath>>

\* The finally block of the try statement around the analysis
pageFinally ==
  /\ pagePc = "finally"
  /\ \E t \in ClockReads : endSession(t)
  /\ isEnding' = FALSE
  /\ pagePc' = "idle"
  /\ UNCHANGED <<recorder, pagePath>>

(***************************************************************************)
(* WebSocketManager of the voice service (services/WebSocketManager.ts)    *)
(* under the connection handler of index.ts.  The clients map is modelled  *)
(* by its key set; socket.io gives every connection an id of its own.      *)
(***************************************************************************)
SocketIds == {"a", "b", "c"}
SessionData == {"s1", "s2"}
Undefined == "undefined"

InitWs ==
  /\ clients = {}
  /\ sessions = [id \in {} |-> Undefined]
  /\ issued = {}

addClient(socketId) == clients' = clients \cup {socketId}

removeClient(socketId) == clients' = clients \ {socketId}

managerStartSession(socketId, sessionData) ==
  sessions' = [id \in (DOMAIN sessions) \cup {socketId} |->
                 IF id = socketId
                 THEN [sessionId |-> sessionData, startTime |-> now,
                       socketId |-> socketId]
                 ELSE sessions[id]]

getActiveSessions == Cardinality(DOMAIN sessions)

getSessionInfo(socketId) ==
  IF socketId \in DOMAIN sessions THEN sessions[socketId] ELSE Undefined

\* io.on('connection')
onConnection(socketId) ==
  /\ socketId \notin issued
  /\ issued' = issued \cup {socketId}
  /\ addClient(socketId)
  /\ UNCHANGED sessions

\* socket.on('start-session')
onStartSession(socketId, data) ==
  /\ socketId \in clients
  /\ managerStartSession(socketId, data)
  /\ UNCHANGED <<clients, issued>>

\* socket.on('disconnect')
onDisconnect(socketId) ==
  /\ socketId \in clients
  /\ removeClient(socketId)
  /\ UNCHANGED <<sessions, issued>>

(***************************************************************************)
(* The store under every action of its interface.                          *)
(***************************************************************************)
RoomForSession == Len(sessionHistory) < MaxSessions
RoomForFeedback == FeedbackCount(sessionHistory) < MaxFeedback

IdleInput ==
  [currentRating |-> InitialRating, actualScore |-> 50,
   opponentRating |-> InitialRating]

Init == InitStore /\ InitElo /\ InitPage /\ InitWs /\ eloInput = IdleInput

Next ==
  \/ \E id \in SessionIds : RoomForSession /\ startSession(id) /\ UNCHANGED <<eloVars, pageVars, wsVars>>
  \/ \E t \in ClockReads : endSession(t) /\ UNCHANGED <<eloVars, pageVars, wsVars>>
  \/ \E f \in Scores : RoomForFeedback /\ setSpeechFeedback(f) /\ UNCHANGED <<eloVars, pageVars, wsVars>>
  \/ \E f \in Scores : RoomForFeedback /\ setVisualFeedback(f) /\ UNCHANGED <<eloVars, pageVars, wsVars>>
  \/ \E r \in RatingInputs : updateEloRating(r) /\ UNCHANGED <<eloVars, pageVars, wsVars>>
  \/ \E s \in ExternalSessions :
        RoomForSession /\ addSessionToHistory(s) /\ UNCHANGED <<eloVars, pageVars, wsVars>>
  \/ resetSession /\ UNCHANGED <<eloVars, pageVars, wsVars>>

Spec == Init /\ [][Next]_vars

(***************************************************************************)
(* One user recording sessions: start, feedback from the two producers     *)
(* while the session runs, end.  The scores cover the examples of the documentation, the extremes  *)
(* and weighted sums that fall exactly between two integers.               *)
(***************************************************************************)
WideScores == {0, 1, 36, 60, 80, 90, 100}
MaxWideSessions == 1
MaxWideFeedback == 3

\* The producers are connected while the session runs
Recording ==
  isSessionActive /\ FeedbackCount(sessionHistory) < MaxWideFeedback

NextSession ==
  \/ \E id \in SessionIds :
        Len(sessionHistory) < MaxWideSessions /\ startSession(id)
        /\ UNCHANGED <<eloVars, pageVars, wsVars>>
  \/ endSession(now) /\ UNCHANGED <<eloVars, pageVars, wsVars>>
  \/ \E f \in WideScores :
        Recording /\ setSpeechFeedback(f) /\ UNCHANGED <<eloVars, pageVars, wsVars>>
  \/ \E f \in WideScores :
        Recording /\ setVisualFeedback(f) /\ UNCHANGED <<eloVars, pageVars, wsVars>>

SpecSession == Init /\ [][NextSession]_vars

(***************************************************************************)
(* One recording session whose collaborators deliver scores outside        *)
(* 0..100 as well.                                                         *)
(***************************************************************************)
RawScores == {0 - 20, 50, 150}

NextRaw ==
  \/ /\ Len(sessionHistory) < MaxWideSessions
     /\ \E id \in SessionIds : startSession(id)
     /\ UNCHANGED <<eloVars, pageVars, wsVars>>
  \/ endSession(now) /\ UNCHANGED <<eloVars, pageVars, wsVars>>
  \/ \E f \in RawScores :
       /\ Recording
       /\ (setSpeechFeedback(f) \/ setVisualFeedback(f))
       /\ UNCHANGED <<eloVars, pageVars, wsVars>>

SpecRaw == Init /\ [][NextRaw]_vars

(***************************************************************************)
(* A long run of sessions of one user who scores the same every time: one  *)
(* speech feedback per session, then the end of the session.               *)
(***************************************************************************)
RunScores == {0, 100}
MaxRunSessions == 25
RunInputs == [score : RunScores]

InitRun == InitStore /\ InitElo /\ InitPage /\ InitWs /\ eloInput \in RunInputs

NextRun ==
  \/ /\ ~isSessionActive
     /\ Len(sessionHistory) < MaxRunSessions
     /\ \E id \in SessionIds : startSession(id)
     /\ UNCHANGED <<eloVars, pageVars, wsVars>>
  \/ /\ isSessionActive
     /\ sessionHistory[1].speechFeedback = <<>>
     /\ setSpeechFeedback(eloInput.score)
     /\ UNCHANGED <<eloVars, pageVars, wsVars>>
  \/ /\ isSessionActive
     /\ sessionHistory[1].speechFeedback # <<>>
     /\ endSession(now)
     /\ UNCHANGED <<eloVars, pageVars, wsVars>>

SpecRun == InitRun /\ [][NextRun]_vars

(***************************************************************************)
(* The rating engine on its own.                                           *)
(***************************************************************************)
NextElo ==
  \/ /\ updateRating(eloInput.currentRating, eloInput.actualScore,
                     eloInput.opponentRating)
     /\ UNCHANGED <<storeVars, envVars, pageVars, wsVars>>
  \/ /\ calculateRatingChange(eloInput.currentRating, eloInput.actualScore,
                              eloInput.opponentRating)
     /\ UNCHANGED <<storeVars, envVars, pageVars, wsVars>>
  \/ /\ getWinProbability(eloInput.currentRating, eloInput.opponentRating)
     /\ UNCHANGED <<storeVars, envVars, pageVars, wsVars>>
  \/ \E g \in GamesPlayed : setKFactor(g) /\ UNCHANGED <<storeVars, envVars, pageVars, wsVars>>

InitEloCalls == InitStore /\ InitElo /\ InitPage /\ InitWs /\ eloInput \in EloInputs

SpecElo == InitEloCalls /\ [][NextElo]_vars

(***************************************************************************)
(* The engine constructed with a K-factor argument.                        *)
(***************************************************************************)
ConstructorKFactors == {10, DefaultKFactor}

\* new EloScoringSystem(k), no call made yet
InitEloWith(k) ==
  /\ kFactor = k
  /\ eloCall = NoCall

InitEloConstructed ==
  /\ InitStore
  /\ InitPage
  /\ InitWs
  /\ \E k \in ConstructorKFactors : InitEloWith(k)
  /\ eloInput \in EloInputs

SpecEloConstructed == InitEloConstructed /\ [][NextElo]_vars

(***************************************************************************)
(* The category lookup of a fresh engine, one rating per behaviour.        *)
(***************************************************************************)
CategoryInputs == [rating : CategoryRatings]

NextCategory ==
  getRatingCategory(eloInput.rating) /\ UNCHANGED <<storeVars, envVars, pageVars, wsVars>>

InitCategory == InitStore /\ InitElo /\ InitPage /\ InitWs /\ eloInput \in CategoryInputs

SpecCategory == InitCategory /\ [][NextCategory]_vars

(***************************************************************************)
(* The session page: start, end, and the steps of the pending end handler. *)
(* A pending promise settles and the code after it runs, so the handler's  *)
(* continuation is weakly fair; the user's clicks are not.                 *)
(***************************************************************************)
NextPage ==
  \/ \E id \in SessionIds, granted \in BOOLEAN :
        pageStartSession(id, granted) /\ UNCHANGED <<eloVars, wsVars>>
  \/ pageEndSession /\ UNCHANGED <<eloVars, wsVars>>
  \/ pageStopStreamResolved /\ UNCHANGED <<eloVars, wsVars>>
  \/ \E outcome \in AnalysisOutcomes :
        pageAnalysisResolved(outcome) /\ UNCHANGED <<eloVars, wsVars>>
  \/ \E f \in Scores : pageSetSpeechFeedback(f) /\ UNCHANGED <<eloVars, wsVars>>
  \/ \E f \in Scores : pageSetVisualFeedback(f) /\ UNCHANGED <<eloVars, wsVars>>
  \/ pageFinally /\ UNCHANGED <<eloVars, wsVars>>

SpecPage == Init /\ [][NextPage]_vars

\* Every step of a pending handler moves pagePc, and one is enabled at every
\* position but idle: fairness of the handler is fairness of pagePc advancing
PagePositions ==
  {"idle", "stopStream", "analyze", "setSpeechFeedback", "setVisualFeedback",
   "finally"}

PageContinuation ==
  /\ pagePc # "idle"
  /\ pagePc' \in PagePositions \ {pagePc}

SpecPageFair == Init /\ [][NextPage]_vars /\ WF_pagePc(PageContinuation)

(***************************************************************************)
(* The voice service's sockets: connections, start-session events and      *)
(* disconnections in any order.                                            *)
(***************************************************************************)
NextWs ==
  \/ \E id \in SocketIds :
        onConnection(id) /\ UNCHANGED <<storeVars, envVars, eloVars, pageVars>>
  \/ \E id \in SocketIds, data \in SessionData :
        onStartSession(id, data)
        /\ UNCHANGED <<storeVars, envVars, eloVars, pageVars>>
  \/ \E id \in SocketIds :
        onDisconnect(id) /\ UNCHANGED <<storeVars, envVars, eloVars, pageVars>>

SpecWs == Init /\ [][NextWs]_vars

(***************************************************************************)
(* Vocabulary of the properties.                                           *)
(***************************************************************************)
Finalized(r) == r.endTime # 0

\* A step in which the head record of an active session gets its end time
FinalizeStep ==
  /\ isSessionActive
  /\ sessionHistory # <<>>
  /\ Len(sessionHistory') = Len(sessionHistory)
  /\ ~Finalized(sessionHistory[1])
  /\ Finalized(sessionHistory'[1])

HeadFinalized ==
  /\ ~isSessionActive
  /\ sessionHistory # <<>>
  /\ Finalized(sessionHistory[1])

\* The double nearest to sum / n, 0 for an empty list
MeanOf(sum, n) == IF n = 0 THEN DZero ELSE DDiv(DFromInt(sum), DFromInt(n))

\* Math.round(mean(speech) * 0.7 + mean(visual) * 0.3) on doubles
RoundedWeighted(sumS, nS, sumV, nV) ==
  MathRound(DAdd(DMul(MeanOf(sumS, nS), Lit07), DMul(MeanOf(sumV, nV), Lit03)))

\* |k - num / den| <= 1/2 in exact integer arithmetic, den > 0
NearestInteger(k, num, den) ==
  /\ 2 * (k * den - num) <= den
  /\ 2 * (num - k * den) <= den

EmptySessionDelta == 0 - 50

C3_EmptySession ==
  [][(/\ FinalizeStep
      /\ sessionHistory[1].speechFeedback = <<>>
      /\ sessionHistory[1].visualFeedback = <<>>)
     => /\ sessionHistory'[1].combinedScore = DZero
        /\ currentEloRating' = currentEloRating + EmptySessionDelta]_vars

\* an empty session ended after an earlier session and a rating set by hand
C3_Witness ==
  /\ HeadFinalized
  /\ Len(sessionHistory) = 2
  /\ sessionHistory[1].speechFeedback = <<>>
  /\ sessionHistory[1].visualFeedback = <<>>
  /\ sessionHistory[1].combinedScore = DZero
  /\ Finalized(sessionHistory[2])
  /\ currentEloRating = 950

StartStep == \E id \in SessionIds : startSession(id)
EndCall == \E t \in ClockReads : endSession(t)

(***************************************************************************)
(* C4.  endSession on an inactive store is a no-op: currentEloRating,      *)
(* sessionHistory, xp, streak and isSessionActive keep their values, so a  *)
(* second endSession never applies the rating update of a session again.   *)
(* An endSession that does change the store starts from an active session  *)
(* with an unfinalized head record and leaves the store inactive.          *)
(***************************************************************************)
C4_DoubleEndGuard ==
  [][EndCall =>
       /\ ~isSessionActive =>
            UNCHANGED <<currentEloRating, sessionHistory, xp, streak,
                        isSessionActive>>
       /\ currentEloRating' # currentEloRating \/ xp' # xp =>
            /\ isSessionActive
            /\ ~Finalized(sessionHistory[1])
            /\ ~isSessionActive']_vars

\* one session ended once: the state in which a second endSession arrives
C4_Witness ==
  /\ HeadFinalized
  /\ Len(sessionHistory) = 1
  /\ xp = 10
  /\ streak = 1
  /\ currentEloRating = InitialRating + EmptySessionDelta

(***************************************************************************)
(* C5.  No store action shortens sessionHistory; startSession lengthens it *)
(* by exactly one record and endSession leaves its length alone, so a      *)
(* start-end cycle adds exactly one record.                                *)
(***************************************************************************)
C5_HistoryGrowth ==
  [][/\ Len(sessionHistory') >= Len(sessionHistory)
     /\ StartStep => Len(sessionHistory') = Len(sessionHistory) + 1
     /\ EndCall => Len(sessionHistory') = Len(sessionHistory)
     /\ FinalizeStep => Len(sessionHistory') = Len(sessionHistory)]_vars

\* two completed cycles left two finalized records
C5_Witness ==
  /\ HeadFinalized
  /\ Len(sessionHistory) = 2
  /\ \A i \in 1..2 : /\ Finalized(sessionHistory[i])
                     /\ sessionHistory[i].sessionId \in SessionIds
  /\ xp = 20

(***************************************************************************)
(* C6.  A finalized record keeps its combinedScore (and stays finalized)   *)
(* under every later store action; startSession only moves it one place    *)
(* down the history.                                                       *)
(***************************************************************************)
C6_FinalizedScoreStable ==
  [][\A i \in 1..Len(sessionHistory) :
       Finalized(sessionHistory[i]) =>
         LET j == IF StartStep THEN i + 1 ELSE i
         IN  /\ j <= Len(sessionHistory')
             /\ Finalized(sessionHistory'[j])
             /\ sessionHistory'[j].combinedScore =
                  sessionHistory[i].combinedScore]_vars

\* an older finalized record under a newer one with another score
C6_Witness ==
  /\ HeadFinalized
  /\ Len(sessionHistory) = 2
  /\ Finalized(sessionHistory[2])
  /\ sessionHistory[2].sessionId \in SessionIds
  /\ sessionHistory[2].combinedScore = DFromInt(80)
  /\ sessionHistory[1].combinedScore = DZero

FeedbackCall ==
  \E f \in Scores : setSpeechFeedback(f) \/ setVisualFeedback(f)

(***************************************************************************)
(* C7.  Feedback delivered while no session is active leaves every record  *)
(* of sessionHistory as it is; in particular a finalized record is never   *)
(* appended to.                                                            *)
(***************************************************************************)
C7_InactiveFeedbackIgnored ==
  [][(~isSessionActive /\ FeedbackCall) =>
       sessionHistory' = sessionHistory]_vars

(***************************************************************************)
(* C8.  As stated: currentEloRating changes only in a step of endSession   *)
(* that finalizes a session.                                               *)
(***************************************************************************)
C8_OnlyFinalizeChangesRating ==
  [][currentEloRating' # currentEloRating => FinalizeStep]_vars

RatingSetCall == \E r \in RatingInputs : updateEloRating(r)

(***************************************************************************)
(* C8, amended.  currentEloRating changes only in a step of endSession     *)
(* that finalizes a session or in an explicit updateEloRating call.  Each  *)
(* finalizing step applies exactly one update, of                          *)
(* Math.round(combinedScore - 50); startSession, the feedback setters,     *)
(* addSessionToHistory, resetSession and an endSession on an inactive      *)
(* store leave the rating alone.                                           *)
(***************************************************************************)
C8_RatingUpdates ==
  [][/\ currentEloRating' # currentEloRating =>
          FinalizeStep \/ RatingSetCall
     /\ FinalizeStep =>
          currentEloRating' - currentEloRating =
            MathRound(DSub(sessionHistory'[1].combinedScore, DFromInt(50)))
     /\ (EndCall /\ ~isSessionActive) => currentEloRating' = currentEloRating
     /\ (StartStep \/ FeedbackCall \/ resetSession
           \/ \E x \in ExternalSessions : addSessionToHistory(x)) =>
          currentEloRating' = currentEloRating]_vars

\* two sessions finalized, one update each: +30 for score 80, -50 for score 0
C8_Witness ==
  /\ HeadFinalized
  /\ Len(sessionHistory) = 2
  /\ Finalized(sessionHistory[2])
  /\ {sessionHistory[1].combinedScore, sessionHistory[2].combinedScore}
       = {DFromInt(80), DZero}
  /\ xp = 20
  /\ currentEloRating = InitialRating + 30 + EmptySessionDelta

C10_UpdateRatingMonotone ==
  eloCall.method = "updateRating" =>
    /\ eloCall.kFactor > 0
    /\ \A a2 \in ActualScores :
         a2 >= eloCall.actualScore =>
           eloCall.result <= UpdateRatingValue(eloCall.kFactor,
                                               eloCall.currentRating, a2,
                                               eloCall.opponentRating)

\* equal ratings, K = 32, score 80: 1200 + 32 * (0.8 - 0.5) rounds to 1210
C10_Witness ==
  /\ eloCall.method = "updateRating"
  /\ eloCall.kFactor = 32
  /\ eloCall.currentRating = 1200
  /\ eloCall.opponentRating = 1200
  /\ eloCall.actualScore = 80
  /\ eloCall.result = 1210

(***************************************************************************)
(* C11.  As stated: getRatingCategory(1999) returns "Advanced" and         *)
(* getRatingCategory(2000) returns "Grandmaster".                          *)
(***************************************************************************)
C11_BoundaryAsStated ==
  eloCall.method = "getRatingCategory" =>
    /\ eloCall.rating = 1999 => eloCall.result = "Advanced"
    /\ eloCall.rating = 2000 => eloCall.result = "Grandmaster"

(***************************************************************************)
(* C11, amended.  getRatingCategory(1999) returns "Master", the tier just  *)
(* below the top one, and getRatingCategory(2000) returns "Grandmaster":   *)
(* the top tier includes its boundary.                                     *)
(***************************************************************************)
C11_CategoryBoundary ==
  eloCall.method = "getRatingCategory" =>
    /\ eloCall.rating = 1999 => eloCall.result = "Master"
    /\ eloCall.rating = 2000 => eloCall.result = "Grandmaster"

C11_Witness ==
  /\ eloCall.method = "getRatingCategory"
  /\ eloCall.rating = 2000
  /\ eloCall.result = "Grandmaster"

CategoryOrder ==
  <<"Novice", "Beginner", "Intermediate", "Advanced", "Expert", "Master",
    "Grandmaster">>

\* the lowest rating of tier i > 1: 1000, 1200, ..., 2000
CategoryFloor(i) == 600 + 200 * i

CategoryRank(label) == CHOOSE i \in 1..Len(CategoryOrder) : CategoryOrder[i] = label

(***************************************************************************)
(* C12.  getRatingCategory returns a label for every integer rating, with  *)
(* thresholds that include their lower bound: Grandmaster from 2000,       *)
(* Master from 1800, Expert from 1600, Advanced from 1400, Intermediate    *)
(* from 1200, Beginner from 1000, Novice below; a higher rating never gets *)
(* a lower label.                                                          *)
(***************************************************************************)
C12_CategoryLookup ==
  eloCall.method = "getRatingCategory" =>
    /\ \E i \in 1..Len(CategoryOrder) :
         /\ eloCall.result = CategoryOrder[i]
         /\ i > 1 => eloCall.rating >= CategoryFloor(i)
         /\ i < Len(CategoryOrder) => eloCall.rating < CategoryFloor(i + 1)
    /\ \A r \in CategoryRatings :
         r >= eloCall.rating =>
           CategoryRank(RatingCategory(r)) >= CategoryRank(eloCall.result)

\* a rating on a threshold gets the tier that starts there
C12_Witness ==
  /\ eloCall.method = "getRatingCategory"
  /\ eloCall.rating = 1600
  /\ eloCall.result = "Expert"

KFactorFor(gamesPlayed) ==
  IF gamesPlayed < 30 THEN 40 ELSE IF gamesPlayed < 100 THEN 32 ELSE 24

RatingCalls == {"updateRating", "calculateRatingChange"}

\* K * (a / 100 - expected(c, o)) as the engine's doubles give it
ScaledSurprise(k, c, a, o) ==
  DMul(DFromInt(k),
       DSub(DDiv(DFromInt(a), DFromInt(100)), getExpectedScore(c, o)))

RoundedRating(k, c, a, o) ==
  MathRound(DAdd(DFromInt(c), ScaledSurprise(k, c, a, o)))

RoundedChange(k, c, a, o) == MathRound(ScaledSurprise(k, c, a, o))

(***************************************************************************)
(* C13.  setKFactor(g) sets K to 40 for g < 30, to 32 for 30 <= g < 100    *)
(* and to 24 for g >= 100; updateRating and calculateRatingChange compute  *)
(* with the K the engine holds at the call and leave it as it is, as does  *)
(* every call other than setKFactor.                                       *)
(***************************************************************************)
C13_AdaptiveKFactor ==
  [][/\ eloCall'.method = "setKFactor" =>
          kFactor' = KFactorFor(eloCall'.gamesPlayed)
     /\ eloCall'.method # "setKFactor" => kFactor' = kFactor
     /\ eloCall'.method \in RatingCalls =>
          /\ eloCall'.kFactor = kFactor
          /\ kFactor \in {24, 32, 40}
     /\ eloCall'.method = "updateRating" =>
          eloCall'.result =
            RoundedRating(kFactor, eloCall'.currentRating,
                          eloCall'.actualScore, eloCall'.opponentRating)
     /\ eloCall'.method = "calculateRatingChange" =>
          eloCall'.result =
            RoundedChange(kFactor, eloCall'.currentRating,
                          eloCall'.actualScore, eloCall'.opponentRating)]_vars

\* K = 40 after setKFactor: a win against an equal opponent gains 20, not 16
C13_Witness ==
  /\ kFactor = 40
  /\ eloCall.method = "updateRating"
  /\ eloCall.kFactor = 40
  /\ eloCall.currentRating = 1200
  /\ eloCall.opponentRating = 1200
  /\ eloCall.actualScore = 100
  /\ eloCall.result = 1220

(***************************************************************************)
(* C14.  calculateRatingChange returns the delta of updateRating,          *)
(* updateRating(c, a, o) = c + calculateRatingChange(c, a, o) for every    *)
(* K-factor of the engine, and leaves the engine's K-factor as it is.      *)
(***************************************************************************)
C14_ChangeIsDelta ==
  [][eloCall'.method = "calculateRatingChange" =>
       /\ kFactor' = kFactor
       /\ UpdateRatingValue(kFactor, eloCall'.currentRating,
                            eloCall'.actualScore, eloCall'.opponentRating)
            = eloCall'.currentRating + eloCall'.result]_vars

(***************************************************************************)
(* C15.  The first updateRating on a newly constructed engine returns      *)
(* Math.round(currentRating + 32 * (actualScore / 100 - expected)).        *)
(* Against an opponent of equal rating this is the integer nearest to      *)
(* currentRating + 32 * (actualScore - 50) / 100: score 50 leaves the      *)
(* rating as it is, score 100 adds 16 and score 0 takes 16 away.           *)
(***************************************************************************)
C15_DefaultKUpdate ==
  [][(eloCall = NoCall /\ eloCall'.method = "updateRating") =>
       LET c == eloCall'.currentRating
           a == eloCall'.actualScore
           o == eloCall'.opponentRating
           r == eloCall'.result
       IN  /\ eloCall'.kFactor = 32
           /\ r = RoundedRating(32, c, a, o)
           /\ c = o =>
                /\ NearestInteger(r - c, 32 * (a - 50), 100)
                /\ a = 50 => r = c
                /\ a = 100 => r = c + 16
                /\ a = 0 => r = c - 16]_vars

C15_Witness ==
  /\ kFactor = 32
  /\ eloCall.method = "updateRating"
  /\ eloCall.kFactor = 32
  /\ eloCall.currentRating = 1600
  /\ eloCall.opponentRating = 1600
  /\ eloCall.actualScore = 0
  /\ eloCall.result = 1584

\* |x - y| < 2^-50
CloseTo(x, y) ==
  LET d == DSub(x, y)
  IN  d.s = 0 \/ d.e + MantBits <= 0 - 50

(***************************************************************************)
(* C16.  getWinProbability(a, b) returns getExpectedScore(a, b), the       *)
(* double 1 / (1 + 10^((b - a) / 400)): 1/2 for equal ratings, 1/11 for an *)
(* opponent 400 above, 1/101 for one 800 above; and the expectations of    *)
(* the two sides add up to 1 within floating-point tolerance.              *)
(***************************************************************************)
C16_ExpectationSymmetry ==
  eloCall.method = "getWinProbability" =>
    LET a == eloCall.ratingA
        b == eloCall.ratingB
    IN  /\ eloCall.result = getExpectedScore(a, b)
        /\ CloseTo(DAdd(eloCall.result, getExpectedScore(b, a)), DFromInt(1))
        /\ b = a => eloCall.result = DDiv(DFromInt(1), DFromInt(2))
        /\ b = a + 400 => eloCall.result = DDiv(DFromInt(1), DFromInt(11))
        /\ b = a + 800 => eloCall.result = DDiv(DFromInt(1), DFromInt(101))
        /\ b < a => /\ DAbsGe(eloCall.result, getExpectedScore(b, a))
                    /\ eloCall.result # getExpectedScore(b, a)

C16_Witness ==
  /\ eloCall.method = "getWinProbability"
  /\ eloCall.ratingA = 1200
  /\ eloCall.ratingB = 1600
  /\ eloCall.result = DDiv(DFromInt(1), DFromInt(11))

FinalizedRecords ==
  {i \in 1..Len(sessionHistory) : Finalized(sessionHistory[i])}

(***************************************************************************)
(* C17.  The combinedScore of every finalized session record is an         *)
(* integer, also when only one modality has feedback.                      *)
(***************************************************************************)
C17_IntegerCombinedScore ==
  \A i \in FinalizedRecords : DIsInt(sessionHistory[i].combinedScore)

\* x <= y on doubles
DLeq(x, y) == DSub(y, x).s >= 0

Smaller(x, y) == IF x <= y THEN x ELSE y
Larger(x, y) == IF x >= y THEN x ELSE y

(***************************************************************************)
(* C18.  With every recorded overallScore in 0..100 the combinedScore of   *)
(* every finalized record lies in 0..100; when both modality averages are  *)
(* positive it is an integer no more than 1/2 below the smaller and no     *)
(* more than 1/2 above the larger of the two averages.                     *)
(***************************************************************************)
C18_CombinedScoreRange ==
  \A i \in FinalizedRecords :
    LET r    == sessionHistory[i]
        sumS == SumScores(r.speechFeedback)
        nS   == Len(r.speechFeedback)
        sumV == SumScores(r.visualFeedback)
        nV   == Len(r.visualFeedback)
        k    == MathRound(r.combinedScore)
    IN  /\ DLeq(DZero, r.combinedScore)
        /\ DLeq(r.combinedScore, DFromInt(100))
        /\ (sumS > 0 /\ sumV > 0) =>
             /\ r.combinedScore = DFromInt(k)
             /\ 2 * k * nS * nV >= 2 * Smaller(sumS * nV, sumV * nS) - nS * nV
             /\ 2 * k * nS * nV <= 2 * Larger(sumS * nV, sumV * nS) + nS * nV

\* speech 36 and visual 100 combine to 55
C18_Witness ==
  /\ HeadFinalized
  /\ sessionHistory[1].speechFeedback = <<36>>
  /\ sessionHistory[1].visualFeedback = <<100>>
  /\ sessionHistory[1].combinedScore = DFromInt(55)

Unfinalized(h) == {i \in 1..Len(h) : ~Finalized(h[i])}

(***************************************************************************)
(* C19.  startSession is not accepted while a session is active, and       *)
(* sessionHistory never holds more than one record that is not finalized.  *)
(***************************************************************************)
C19_NoReentrantStart ==
  [][/\ (isSessionActive /\ StartStep) => sessionHistory' = sessionHistory
     /\ Cardinality(Unfinalized(sessionHistory')) <= 1]_vars

(***************************************************************************)
(* C20.  Scores outside 0..100 are clamped: whatever overallScore values   *)
(* were recorded, endSession leaves a combinedScore within 0..100 and      *)
(* moves the rating by at most 50, the most an in-range score can do.      *)
(***************************************************************************)
C20_ScoresClamped ==
  [][FinalizeStep =>
       /\ DLeq(DZero, sessionHistory'[1].combinedScore)
       /\ DLeq(sessionHistory'[1].combinedScore, DFromInt(100))
       /\ currentEloRating' - currentEloRating <= 50
       /\ currentEloRating - currentEloRating' <= 50]_vars

\* The score of a record with the given lists of overallScore values
ScoreOfLists(speech, visual) ==
  LET meanS == MeanOf(SumScores(speech), Len(speech))
      meanV == MeanOf(SumScores(visual), Len(visual))
  IN  IF DGtZero(meanS) /\ DGtZero(meanV)
      THEN DFromInt(MathRound(DAdd(DMul(meanS, Lit07), DMul(meanV, Lit03))))
      ELSE IF DGtZero(meanV) THEN meanV ELSE meanS

(***************************************************************************)
(* C21.  The two producers may interleave in any order during an active    *)
(* session: a speech event is appended at the end of the head record's     *)
(* speech list and leaves its visual list alone, a visual event does the   *)
(* converse, so no event is lost and each list keeps its producer's order; *)
(* endSession computes combinedScore and the rating change from the two    *)
(* lists only, so every interleaving of the same events ends the same.     *)
(***************************************************************************)
C21_InterleavingSafe ==
  [][/\ \A f \in WideScores :
          (isSessionActive /\ setSpeechFeedback(f)) =>
            /\ sessionHistory'[1].speechFeedback =
                 Append(sessionHistory[1].speechFeedback, f)
            /\ sessionHistory'[1].visualFeedback =
                 sessionHistory[1].visualFeedback
     /\ \A f \in WideScores :
          (isSessionActive /\ setVisualFeedback(f)) =>
            /\ sessionHistory'[1].visualFeedback =
                 Append(sessionHistory[1].visualFeedback, f)
            /\ sessionHistory'[1].speechFeedback =
                 sessionHistory[1].speechFeedback
     /\ FinalizeStep =>
          /\ sessionHistory'[1].speechFeedback = sessionHistory[1].speechFeedback
          /\ sessionHistory'[1].visualFeedback = sessionHistory[1].visualFeedback
          /\ sessionHistory'[1].combinedScore =
               ScoreOfLists(sessionHistory[1].speechFeedback,
                            sessionHistory[1].visualFeedback)
          /\ currentEloRating' - currentEloRating =
               MathRound(DSub(ScoreOfLists(sessionHistory[1].speechFeedback,
                                           sessionHistory[1].visualFeedback),
                              DFromInt(50)))]_vars

\* speech 80 then 60, with a visual 100 at any point between them
C21_Witness ==
  /\ HeadFinalized
  /\ sessionHistory[1].speechFeedback = <<80, 60>>
  /\ sessionHistory[1].visualFeedback = <<100>>
  /\ sessionHistory[1].combinedScore = DFromInt(79)
  /\ currentEloRating = InitialRating + 29

(***************************************************************************)
(* C22.  An endSession that finalizes the active session sets              *)
(* currentEloRating to the previous rating plus                            *)
(* Math.round(combinedScore - 50), the linear rule and not the Elo         *)
(* formula (a score of 80 adds 30), makes the store idle                   *)
(* (isSessionActive false, sessionId null, sessionStartTime null) and      *)
(* leaves the finalized record at the head of sessionHistory.              *)
(***************************************************************************)
C22_CommitStep ==
  [][FinalizeStep =>
       /\ currentEloRating' =
            currentEloRating
              + MathRound(DSub(sessionHistory'[1].combinedScore, DFromInt(50)))
       /\ sessionHistory'[1].combinedScore = DFromInt(80) =>
            currentEloRating' = currentEloRating + 30
       /\ ~isSessionActive'
       /\ sessionId' = NullId
       /\ sessionStartTime' = Null
       /\ Finalized(sessionHistory'[1])
       /\ sessionHistory'[1].sessionId = sessionHistory[1].sessionId
       /\ sessionHistory'[1].startTime = sessionHistory[1].startTime
       /\ Tail(sessionHistory') = Tail(sessionHistory)]_vars

C22_Witness ==
  /\ HeadFinalized
  /\ sessionId = NullId
  /\ sessionStartTime = Null
  /\ sessionHistory[1].combinedScore = DFromInt(80)
  /\ currentEloRating = InitialRating + 30

\* h2 is h with at most the named list of its head record changed
OnlyHeadListChanged(h, h2, list) ==
  /\ Len(h2) = Len(h)
  /\ \A i \in 1..Len(h) :
       \A field \in DOMAIN h[i] :
         (i > 1 \/ field # list) => h2[i][field] = h[i][field]

(***************************************************************************)
(* C23.  setSpeechFeedback changes only the speech list of the head record *)
(* and the latest-speech slot; setVisualFeedback only the visual list of   *)
(* the head record and the latest-visual slot.  The rating, the session    *)
(* flags, xp, streak, the length of the history and the other modality     *)
(* stay as they are.                                                       *)
(***************************************************************************)
C23_FeedbackFrame ==
  [][/\ \A f \in Scores :
          setSpeechFeedback(f) =>
            /\ speechFeedback' = f
            /\ OnlyHeadListChanged(sessionHistory, sessionHistory',
                                   "speechFeedback")
            /\ UNCHANGED <<currentEloRating, isSessionActive, sessionId,
                           sessionStartTime, xp, streak, lastSessionDate,
                           visualFeedback>>
     /\ \A f \in Scores :
          setVisualFeedback(f) =>
            /\ visualFeedback' = f
            /\ OnlyHeadListChanged(sessionHistory, sessionHistory',
                                   "visualFeedback")
            /\ UNCHANGED <<currentEloRating, isSessionActive, sessionId,
                           sessionStartTime, xp, streak, lastSessionDate,
                           speechFeedback>>]_vars

\* speech 80 and then visual 0 recorded in an active session
C23_Witness ==
  /\ isSessionActive
  /\ speechFeedback = 80
  /\ visualFeedback = 0
  /\ sessionHistory[1].speechFeedback = <<80>>
  /\ sessionHistory[1].visualFeedback = <<0>>
  /\ currentEloRating = InitialRating
  /\ xp = 0

C25_IntegerRating ==
  [][/\ currentEloRating' \in Int
     /\ FinalizeStep =>
          LET r == sessionHistory[1]
              k == currentEloRating' - currentEloRating
          IN  (SumScores(r.visualFeedback) = 0 /\ Len(r.speechFeedback) > 0) =>
                 NearestInteger(k, SumScores(r.speechFeedback)
                                     - 50 * Len(r.speechFeedback),
                                Len(r.speechFeedback))]_vars

\* speech scores 0 and 1: combinedScore 0.5, change Math.round(-49.5) = -49
C25_Witness ==
  /\ HeadFinalized
  /\ sessionHistory[1].speechFeedback = <<0, 1>>
  /\ sessionHistory[1].visualFeedback = <<>>
  /\ ~DIsInt(sessionHistory[1].combinedScore)
  /\ currentEloRating = InitialRating - 49

\* The sum of Math.round(combinedScore - 50) over the finalized records
RECURSIVE RatingSum(_)
RatingSum(h) ==
  IF h = <<>> THEN 0
  ELSE (IF Finalized(h[1])
        THEN MathRound(DSub(h[1].combinedScore, DFromInt(50)))
        ELSE 0)
       + RatingSum(Tail(h))

(***************************************************************************)
(* C26.  The rating is not clamped: after any run of sessions it is the    *)
(* initial 1200 plus the sum of the changes of the finalized sessions,     *)
(* 50 down for each session with combinedScore 0 and 50 up for each with   *)
(* combinedScore 100, below zero and above every tier threshold alike.     *)
(***************************************************************************)
C26_NoRatingClamp ==
  /\ currentEloRating = InitialRating + RatingSum(sessionHistory)
  /\ (\A i \in FinalizedRecords : sessionHistory[i].combinedScore = DZero)
       => currentEloRating = InitialRating - 50 * Cardinality(FinalizedRecords)
  /\ (\A i \in FinalizedRecords :
        sessionHistory[i].combinedScore = DFromInt(100))
       => currentEloRating = InitialRating + 50 * Cardinality(FinalizedRecords)

\* 25 sessions with combinedScore 0 take the rating from 1200 to -50
C26_Witness ==
  /\ currentEloRating < 0
  /\ Len(sessionHistory) = 25
  /\ \A i \in 1..Len(sessionHistory) :
       /\ Finalized(sessionHistory[i])
       /\ sessionHistory[i].combinedScore = DZero

(***************************************************************************)
(* C27.  In every state reached by startSession, endSession, resetSession  *)
(* and the other store actions, isSessionActive is true exactly when       *)
(* sessionId is not null, and exactly when sessionStartTime is not null.   *)
(***************************************************************************)
C27_SessionFlagsAgree ==
  /\ isSessionActive <=> sessionId # NullId
  /\ isSessionActive <=> sessionStartTime # Null

\* a session started after an earlier one was ended
C27_Witness ==
  /\ isSessionActive
  /\ sessionId = "s1"
  /\ sessionStartTime # Null
  /\ Len(sessionHistory) = 2
  /\ Finalized(sessionHistory[2])

(***************************************************************************)
(* C28.  While a session is active sessionHistory is not empty and its     *)
(* head is a record that is not finalized and carries the store's          *)
(* sessionId; an endSession that changes the history changes only that     *)
(* head record, so it finalizes the record of the latest startSession and  *)
(* never an older or an already finalized one.                             *)
(***************************************************************************)
C28_HeadIsActiveSession ==
  [][/\ isSessionActive' =>
          /\ sessionHistory' # <<>>
          /\ ~Finalized(sessionHistory'[1])
          /\ sessionHistory'[1].sessionId = sessionId'
     /\ (EndCall /\ sessionHistory' # sessionHistory) =>
          /\ isSessionActive
          /\ ~Finalized(sessionHistory[1])
          /\ sessionHistory[1].sessionId = sessionId
          /\ Finalized(sessionHistory'[1])
          /\ Tail(sessionHistory') = Tail(sessionHistory)
     /\ \A id \in SessionIds :
          startSession(id) => /\ sessionHistory'[1].sessionId = id
                              /\ Tail(sessionHistory') = sessionHistory]_vars

\* a session handed to addSessionToHistory sits behind the running one
C28_Witness ==
  /\ isSessionActive
  /\ Len(sessionHistory) = 2
  /\ ~Finalized(sessionHistory[1])
  /\ sessionHistory[1].sessionId = sessionId
  /\ sessionHistory[2].sessionId = "ext"
(***************************************************************************)
(* C29: every end handler of the page that passed the isEnding guard       *)
(* eventually ends the store's session and resets isEnding, whatever       *)
(* branch it takes.                                                        *)
(***************************************************************************)
C29_EndFlowTerminates == isEnding ~> (~isEnding /\ ~isSessionActive)

(***************************************************************************)
(* C30: every socket id with an entry in the sessions map of the           *)
(* WebSocketManager is a key of its clients map; a disconnected client has *)
(* no session info and is not counted as an active session.                *)
(***************************************************************************)
C30_SessionsOnlyForClients ==
  /\ DOMAIN sessions \subseteq clients
  /\ \A id \in issued \ clients : getSessionInfo(id) = Undefined
  /\ getActiveSessions <= Cardinality(clients)


====
